---- MODULE Spec2Model ----
(***************************************************************************)
(* License validation and session tracking backend (golf-licenses).        *)
(*                                                                         *)
(* The repository holds several divergent servers.  The Postgres-backed    *)
(* "FINAL License + Tracking Server" (src/unnamed/part_001) is modelled as *)
(* a state machine whose atomic steps are the single SQL statements its    *)
(* handlers await.  The license evaluators of the other servers            *)
(* (src/index.cjs, src/index.js) are modelled as operators and applied     *)
(* to bounded license records and instants.                                *)
(*                                                                         *)
(* Specifications: Spec and SpecSeq (GET /event, overlapping and one at a  *)
(* time), SpecOps (GET /check and GET /event with failing store            *)
(* statements), SpecAdmin and SpecGuard (the admin routes), SpecLic (the   *)
(* license writes), SpecRace (ends meeting several running sessions),      *)
(* SpecPost (the session routes that read no license), SpecFile (the       *)
(* file-backed POST /event), SpecRate (the limiter), SpecEval (the         *)
(* evaluators).                                                            *)
(*                                                                         *)
(* Time is in milliseconds; day 0 starts at instant 0 (UTC).               *)
(***************************************************************************)
EXTENDS Integers, Sequences, FiniteSets, TLC

VARIABLES
    licenses,   \* public.licenses: device_id -> license row, or NoLic
    sessions,   \* public.sessions: rows in insertion order (index = serial id)
    events,     \* public.events: the audit rows, in insertion order
    now,        \* the wall clock, ms (Date.now() and SQL now())
    reqs,       \* the GET /event handler running in each slot
    genCount,   \* number of ids randomId() has produced
    lastResp,   \* the response sent last
    evalOut,    \* the last answers of the license evaluators
    ADMIN_TOKEN, \* process.env.ADMIN_TOKEN || "", read once when the server starts
    lastStart,  \* index.js (file-backed) lastStart: device_id -> Date.now() of its start
    rateMap     \* part_001 rateMap: client address -> { n, t } of its window

vars == <<licenses, sessions, events, now, reqs, genCount, lastResp, evalOut, ADMIN_TOKEN,
          lastStart, rateMap>>

----------------------------------------------------------------------------
(* Bounds *)

\* Requests accepted in one behaviour (each appends one audit row).
MaxEvents == 3

----------------------------------------------------------------------------
(* Values *)

Devices == {"D1", "D2"}

\* SQL NULL / JS null of an integer column or variable (all stored integers
\* are >= 0).
NULL == 0 - 1

\* The client addresses the limiter tells apart (x-forwarded-for, else the
\* socket address).
Addresses == {"10.0.0.1", "10.0.0.2"}

\* rateMap.get(ip) of an address that has sent nothing yet.
NoEntry == [n |-> 0, t |-> NULL]

DayMs == 24 * 60 * 60 * 1000

\* The expiry column as the evaluators receive it, the YYYY-MM-DD text their
\* parameter comments declare: two calendar dates, a missing value and a
\* string that is no date.
ExpiryDay0 == "2026-12-30"
ExpiryDay1 == "2026-12-31"
ExpiryDates == {ExpiryDay0, ExpiryDay1}
NoExpiry == ""
BadExpiry == "31/12/2026"
Expiries == ExpiryDates \cup {NoExpiry, BadExpiry}

\* Day number of a calendar date string (day 0 is 2026-12-30).
DayOf(s) == IF s = ExpiryDay0 THEN 0 ELSE 1

NoLic == [device_id |-> "", username |-> "", level |-> "", expiry |-> "", status |-> ""]

LicRow(d, lvl, exp, st) ==
    [device_id |-> d, username |-> IF d = "D1" THEN "alice" ELSE "bob",
     level |-> lvl, expiry |-> exp, status |-> st]

\* A JS number that may be NaN.
Num(n) == [nan |-> FALSE, n |-> n]
NaN == [nan |-> TRUE, n |-> 0]

\* a < b on JS numbers: false when either side is NaN.
JsLt(a, b) == ~a.nan /\ ~b.nan /\ a.n < b.n

\* String.prototype.toLowerCase on the status strings in use.
ToLowerCase(s) == IF s = "ACTIVE" THEN "active" ELSE s

----------------------------------------------------------------------------
(* License evaluators *)

\* new Date(s + "T23:59:59.999Z").getTime()
EndOfDay999(s) == IF s \in ExpiryDates THEN Num(DayOf(s) * DayMs + DayMs - 1) ELSE NaN

\* new Date(s + "T23:59:59Z").getTime()
EndOfDay(s) == IF s \in ExpiryDates THEN Num(DayOf(s) * DayMs + DayMs - 1000) ELSE NaN

\* new Date(s).getTime(): a date-only string is midnight UTC
StartOfDay(s) == IF s \in ExpiryDates THEN Num(DayOf(s) * DayMs) ELSE NaN

\* isExpired comparing with the start of the expiry day instead of its end
isExpiredAtStartOfDay(expiryDateStr, t) ==
    IF expiryDateStr = NoExpiry THEN TRUE
    ELSE JsLt(StartOfDay(expiryDateStr), Num(t))

\* isExpired that finds no license expired
isExpiredNever(expiryDateStr, t) == FALSE

\* part_001 isExpired
isExpired(expiryDateStr, t) ==
    IF expiryDateStr = NoExpiry THEN TRUE
    ELSE JsLt(EndOfDay999(expiryDateStr), Num(t))

\* index.cjs isExpired
isExpiredCjs(dateString, t) ==
    IF dateString = NoExpiry THEN TRUE
    ELSE JsLt(EndOfDay(dateString), Num(t))

\* index.js (file-backed) isExpired
isExpiredFile(expiryYYYYMMDD, t) ==
    IF EndOfDay(expiryYYYYMMDD).nan THEN TRUE
    ELSE JsLt(EndOfDay(expiryYYYYMMDD), Num(t))

WithFields(st, lic) ==
    [status |-> st, username |-> lic.username, level |-> lic.level, expiry |-> lic.expiry]

\* part_001 getLicense: r.rows[0] || null
getLicense(L, device_id) == L[device_id]

\* validate without its test for a missing row
validateWithoutMissingTest(L, device_id, t) ==
    LET lic == getLicense(L, device_id) IN
    IF ToLowerCase(lic.status) # "active" THEN WithFields("inactive", lic)
    ELSE IF isExpired(lic.expiry, t) THEN WithFields("expired", lic)
    ELSE WithFields("valid", lic)

\* validate without its test of the status column
validateWithoutStatusTest(L, device_id, t) ==
    LET lic == getLicense(L, device_id) IN
    IF lic = NoLic THEN [status |-> "unauthorised"]
    ELSE IF isExpired(lic.expiry, t) THEN WithFields("expired", lic)
    ELSE WithFields("valid", lic)

\* part_001 validate
validate(L, device_id, t) ==
    LET lic == getLicense(L, device_id) IN
    IF lic = NoLic THEN [status |-> "unauthorised"]
    ELSE IF ToLowerCase(lic.status) # "active" THEN WithFields("inactive", lic)
    ELSE IF isExpired(lic.expiry, t) THEN WithFields("expired", lic)
    ELSE WithFields("valid", lic)

\* index.cjs checkLicenseByDeviceId (the answer; its audit write is not part
\* of the answer)
checkLicenseByDeviceId(L, device_id, t) ==
    IF device_id = "" THEN [status |-> "unauthorised"]
    ELSE LET lic == L[device_id] IN
         IF lic = NoLic THEN [status |-> "unauthorised"]
         ELSE IF ToLowerCase(lic.status) # "active" THEN WithFields("inactive", lic)
         ELSE IF isExpiredCjs(lic.expiry, t) THEN WithFields("expired", lic)
         ELSE WithFields("valid", lic)

\* index.js (file-backed) checkLicense: the status column is not read
checkLicense(L, device_id, t) ==
    LET lic == L[device_id] IN
    IF lic = NoLic THEN [status |-> "unauthorised"]
    ELSE WithFields(IF isExpiredFile(lic.expiry, t) THEN "expired" ELSE "valid", lic)

\* today.setHours(0, 0, 0, 0): local midnight of the server, which runs in UTC
LocalMidnight(t) == (t \div DayMs) * DayMs

\* index.js GET /validate (Postgres section): the status it answers
validateRoute(L, device_id, t) ==
    LET lic == L[device_id] IN
    IF lic = NoLic THEN "unauthorised"
    ELSE LET r1 == IF lic.status # "" /\ ToLowerCase(lic.status) # "active"
                   THEN "unauthorised" ELSE "valid"
         IN IF lic.expiry # NoExpiry
               /\ JsLt(StartOfDay(lic.expiry), Num(LocalMidnight(t)))
            THEN "expired" ELSE r1

\* new Date(v).getTime() of the expiry column: a missing value (null) is
\* the epoch, long before day 0; a date is its midnight UTC
DateOf(v) == IF v = NoExpiry THEN Num(0 - DayMs) ELSE StartOfDay(v)

\* part_002 GET /check: the status it answers (lic.status compared as
\* stored; lic.expiry && new Date(lic.expiry) < today, today = new Date())
checkPart002(L, device_id, t) ==
    LET lic == L[device_id] IN
    IF lic = NoLic THEN "unauthorised"
    ELSE IF lic.status # "active" THEN "inactive"
    ELSE IF lic.expiry # NoExpiry /\ JsLt(DateOf(lic.expiry), Num(t)) THEN "expired"
    ELSE "valid"

\* index.js POST /check (Postgres test section): the status it answers
\* (new Date(lic.expiry) < today, today = new Date())
checkPost(L, device_id, t) ==
    LET lic == L[device_id] IN
    IF lic = NoLic THEN "unauthorised"
    ELSE IF lic.status # "active" THEN "inactive"
    ELSE IF JsLt(DateOf(lic.expiry), Num(t)) THEN "expired"
    ELSE "valid"

----------------------------------------------------------------------------
(* Session store (public.sessions) *)

\* The handlers that can run at the same time.
Slots == {1, 2}

\* The instants the clock of the server passes through: 23:59:58.000 and
\* 23:59:59.600 of day 0, 00:00:01.000 of day 1.
Instants == <<DayMs - 2000, DayMs - 400, DayMs + 1000>>

\* Session ids a client makes up itself; "" is no session_id.
ClientSids == {"s1"}

\* The ids randomId() returns, in the order it returns them: random bytes,
\* taken to be fresh.
GenIds == <<"g1", "g2", "g3", "g4", "g5", "g6", "g7", "g8">>

\* req.query.duration: not given, or the text given.
NoDuration == "<undefined>"
Durations == {NoDuration, "7.9", "-5", "abc"}

\* Number(v) of a duration text, in tenths of a second
NumberOf(v) ==
    CASE v = "7.9" -> Num(79)
      [] v = "-5" -> Num(0 - 50)
      [] v = "" -> Num(0)
      [] OTHER -> NaN

\* part_001 toInt
toInt(v) ==
    LET n == NumberOf(v) IN
    IF n.nan THEN NULL
    ELSE LET i == n.n \div 10 IN IF i < 0 THEN 0 ELSE i

Max(a, b) == IF a < b THEN b ELSE a

\* EXTRACT(EPOCH FROM (now() - start_time))::int : the cast rounds to the
\* nearest integer (no two instants of the model are a half second apart)
EpochInt(ms) == (ms + 500) \div 1000

\* GREATEST(EXTRACT(EPOCH FROM (now() - start_time))::int, 0)
ElapsedSec(start_time, t) == Max(EpochInt(t - start_time), 0)

Rows(S) == 1 .. Len(S)

\* WHERE device_id = $1 AND status = 'running' AND end_time IS NULL
RunningOf(S, device_id) ==
    {i \in Rows(S) : S[i].device_id = device_id /\ S[i].status = "running"
                     /\ S[i].end_time = NULL}

\* The SELECT of the running rows without its ORDER BY start_time DESC
LatestRunningUnordered(S, device_id) == RunningOf(S, device_id)

\* ORDER BY start_time DESC LIMIT 1: any row with the latest start_time
LatestRunning(S, device_id) ==
    {i \in RunningOf(S, device_id) :
        \A j \in RunningOf(S, device_id) : S[j].start_time <= S[i].start_time}

\* A close that sets the status and the duration but no end_time
ClosedWithoutEndTime(row, st, dur, t) ==
    [row EXCEPT !.status = st, !.duration_sec = dur]

Closed(row, st, dur, t) ==
    [row EXCEPT !.end_time = t, !.status = st, !.duration_sec = dur]

\* abortRunningSession whose UPDATE matches no row
abortRunningSessionNoRow(S, device_id, t) == {S}

\* part_001 abortRunningSession: the tables the UPDATE can leave
abortRunningSession(S, device_id, t) ==
    IF LatestRunning(S, device_id) = {} THEN {S}
    ELSE {[S EXCEPT ![i] = Closed(S[i], "aborted", ElapsedSec(S[i].start_time, t), t)] :
            i \in LatestRunning(S, device_id)}

\* part_001 startSession: INSERT ... ON CONFLICT (session_id) DO NOTHING
insertSession(S, sid, device_id, level, t) ==
    IF \E i \in Rows(S) : S[i].session_id = sid THEN S
    ELSE Append(S, [session_id |-> sid, device_id |-> device_id, level |-> level,
                    start_time |-> t, end_time |-> NULL, status |-> "running",
                    duration_sec |-> NULL])

\* part_001 endSession: dur = durationSec == null ? null : Math.max(0, durationSec)
endDur(durationSec) == IF durationSec = NULL THEN NULL ELSE Max(0, durationSec)

\* An end that marks the row aborted
updateEndedAsAborted(S, device_id, sid, dur, t) ==
    [i \in Rows(S) |->
        IF S[i].device_id = device_id /\ S[i].session_id = sid
        THEN Closed(S[i], "aborted",
                    IF dur # NULL THEN dur ELSE ElapsedSec(S[i].start_time, t), t)
        ELSE S[i]]

\* part_001 endSession: UPDATE ... WHERE device_id = $1 AND session_id = $2
\* with duration_sec = COALESCE(dur, GREATEST(elapsed, 0))
updateEnded(S, device_id, sid, dur, t) ==
    [i \in Rows(S) |->
        IF S[i].device_id = device_id /\ S[i].session_id = sid
        THEN Closed(S[i], "ended",
                    IF dur # NULL THEN dur ELSE ElapsedSec(S[i].start_time, t), t)
        ELSE S[i]]

----------------------------------------------------------------------------
(* GET /event of part_001 *)

Idle == [pc |-> "idle", device_id |-> "", event |-> "", session_id |-> "",
         rawDuration |-> NoDuration, duration |-> NULL, script |-> "",
         level |-> "", sid |-> ""]

\* The response a request got.
Response(q, code, session, sid, reason) ==
    [route |-> "GET /event",
     device_id |-> q.device_id, event |-> q.event, given |-> q.session_id,
     code |-> code, status |-> IF code = 200 THEN "ok" ELSE "", error |-> "",
     session |-> session, session_id |-> sid, reason |-> reason, rows |-> {},
     ok |-> ""]

NoResp == [Response(Idle, 0, "", "", "") EXCEPT !.route = ""]

InFlight == {r \in Slots : reqs[r].pc # "idle"}

\* The session ids present in the table (a client may have learnt them).
KnownSids == {sessions[i].session_id : i \in Rows(sessions)}

Respond(r, resp) ==
    /\ reqs' = [reqs EXCEPT ![r] = Idle]
    /\ lastResp' = resp

\* An audit log that keeps one row per device_id, the latest
logEventKeepingLatest(E, device_id, event, result) ==
    LET row == [device_id |-> device_id, event |-> event, result |-> result]
        old == {i \in 1 .. Len(E) : E[i].device_id = device_id}
    IN  IF old = {} THEN Append(E, row)
        ELSE [i \in 1 .. Len(E) |-> IF i \in old THEN row ELSE E[i]]

\* logEvent: INSERT INTO public.events
logEvent(E, device_id, event, result) ==
    Append(E, [device_id |-> IF device_id = "" THEN "unknown" ELSE device_id,
               event |-> IF event = "" THEN "event" ELSE event,
               result |-> IF result = "" THEN "ok" ELSE result])

\* The request arrives: parameters are read and the audit row is written.
Begin(r, device_id, event, session_id, rawDuration, script) ==
    /\ reqs[r].pc = "idle"
    /\ \A r2 \in Slots : r2 < r => reqs[r2].pc # "idle"
    /\ Len(events) < MaxEvents
    /\ events' = logEvent(events, device_id, event, "ok")
    /\ reqs' = [reqs EXCEPT ![r] =
          [Idle EXCEPT !.pc = "validate", !.device_id = device_id, !.event = event,
                       !.session_id = session_id, !.rawDuration = rawDuration,
                       !.duration = IF rawDuration # NoDuration THEN toInt(rawDuration)
                                    ELSE NULL,
                       !.script = script]]
    /\ UNCHANGED <<licenses, sessions, now, genCount, lastResp, evalOut, ADMIN_TOKEN, lastStart, rateMap>>

BeginEvent(r) ==
    \E device_id \in Devices :
        \/ \E session_id \in {""} \cup ClientSids \cup KnownSids, script \in {"", "premium"} :
              Begin(r, device_id, "start", session_id, NoDuration, script)
        \/ \E session_id \in {""} \cup ClientSids \cup KnownSids, rawDuration \in Durations :
              Begin(r, device_id, "end", session_id, rawDuration, "")
        \/ Begin(r, device_id, "ping", "", NoDuration, "")

\* Requests that do not overlap: one is accepted only when none is running.
BeginEventSeq(r) ==
    /\ InFlight = {}
    /\ BeginEvent(r)

\* const v = await validate(device_id), and the branch taken on it
Validate(r) ==
    LET q == reqs[r]
        v == validate(licenses, q.device_id, now)
    IN
    /\ q.pc = "validate"
    /\ IF q.event = "start" /\ v.status = "valid" THEN
          /\ reqs' = [reqs EXCEPT ![r].pc = "abort",
                                  ![r].level = IF q.script # "" THEN q.script
                                               ELSE IF v.level # "" THEN v.level
                                               ELSE "unknown"]
          /\ lastResp' = lastResp
       ELSE IF q.event = "start" THEN
          Respond(r, Response(q, 200, "not_started", "", v.status))
       ELSE IF q.event = "end" /\ v.status = "valid" THEN
          /\ reqs' = [reqs EXCEPT ![r].pc = IF q.session_id # "" THEN "endById"
                                            ELSE "endSelect"]
          /\ lastResp' = lastResp
       ELSE IF q.event = "end" THEN
          Respond(r, Response(q, 200, "not_ended", "", v.status))
       ELSE
          Respond(r, Response(q, 200, "", "", ""))
    /\ UNCHANGED <<licenses, sessions, events, now, genCount, evalOut, ADMIN_TOKEN, lastStart, rateMap>>

\* startSession: await abortRunningSession(device_id); then sid is chosen
Abort(r) ==
    LET q == reqs[r] IN
    /\ q.pc = "abort"
    /\ sessions' \in abortRunningSession(sessions, q.device_id, now)
    /\ IF q.session_id # "" THEN
          /\ reqs' = [reqs EXCEPT ![r].pc = "insert", ![r].sid = q.session_id]
          /\ genCount' = genCount
       ELSE
          /\ reqs' = [reqs EXCEPT ![r].pc = "insert", ![r].sid = GenIds[genCount + 1]]
          /\ genCount' = genCount + 1
    /\ UNCHANGED <<licenses, events, now, lastResp, evalOut, ADMIN_TOKEN, lastStart, rateMap>>

\* startSession: the INSERT, then the "started" response
Insert(r) ==
    LET q == reqs[r] IN
    /\ q.pc = "insert"
    /\ sessions' = insertSession(sessions, q.sid, q.device_id, q.level, now)
    /\ Respond(r, Response(q, 200, "started", q.sid, ""))
    /\ UNCHANGED <<licenses, events, now, genCount, evalOut, ADMIN_TOKEN, lastStart, rateMap>>

\* endSession with a session_id: the UPDATE, then { ended: true }
EndById(r) ==
    LET q == reqs[r] IN
    /\ q.pc = "endById"
    /\ sessions' = updateEnded(sessions, q.device_id, q.session_id, endDur(q.duration), now)
    /\ Respond(r, Response(q, 200, "ended", q.session_id, ""))
    /\ UNCHANGED <<licenses, events, now, genCount, evalOut, ADMIN_TOKEN, lastStart, rateMap>>

\* endSession without a session_id: SELECT the latest running session
EndSelect(r) ==
    LET q == reqs[r] IN
    /\ q.pc = "endSelect"
    /\ IF LatestRunning(sessions, q.device_id) = {} THEN
          Respond(r, Response(q, 200, "not_found", "", ""))
       ELSE
          /\ \E i \in LatestRunning(sessions, q.device_id) :
                reqs' = [reqs EXCEPT ![r].pc = "endUpdate",
                                     ![r].sid = sessions[i].session_id]
          /\ lastResp' = lastResp
    /\ UNCHANGED <<licenses, sessions, events, now, genCount, evalOut, ADMIN_TOKEN, lastStart, rateMap>>

\* endSession without a session_id: the UPDATE of the selected session
EndUpdate(r) ==
    LET q == reqs[r] IN
    /\ q.pc = "endUpdate"
    /\ sessions' = updateEnded(sessions, q.device_id, q.sid, endDur(q.duration), now)
    /\ Respond(r, Response(q, 200, "ended", q.sid, ""))
    /\ UNCHANGED <<licenses, events, now, genCount, evalOut, ADMIN_TOKEN, lastStart, rateMap>>

\* The clock moves on to the next instant.
Tick ==
    /\ \E k \in 1 .. (Len(Instants) - 1) :
          /\ now = Instants[k]
          /\ now' = Instants[k + 1]
    /\ UNCHANGED <<licenses, sessions, events, reqs, genCount, lastResp, evalOut, ADMIN_TOKEN, lastStart, rateMap>>

NoEval == [device_id |-> "", at |-> 0, lic |-> NoLic,
           validate |-> [status |-> ""], cjs |-> [status |-> ""],
           file |-> [status |-> ""], route |-> "", part002 |-> "", post |-> ""]

Init ==
    /\ licenses = [d \in Devices |->
                     IF d = "D1" THEN LicRow(d, "premium", ExpiryDay1, "active")
                     ELSE LicRow(d, "lite", ExpiryDay0, "active")]
    /\ sessions = <<>>
    /\ events = <<>>
    /\ now = Instants[1]
    /\ reqs = [r \in Slots |-> Idle]
    /\ genCount = 0
    /\ lastResp = NoResp
    /\ evalOut = NoEval
    /\ ADMIN_TOKEN = "secret"
    /\ lastStart = [d \in Devices |-> NULL]
    /\ rateMap = [ip \in Addresses |-> NoEntry]

Step(r) ==
    \/ Validate(r)
    \/ Abort(r)
    \/ Insert(r)
    \/ EndById(r)
    \/ EndSelect(r)
    \/ EndUpdate(r)

\* Requests handled concurrently, interleaved at their store operations.
Next ==
    \/ Tick
    \/ \E r \in Slots : BeginEvent(r)
    \/ \E r \in Slots : Step(r)

Spec == Init /\ [][Next]_vars

\* Requests handled one after the other.
NextSeq ==
    \/ Tick
    \/ \E r \in Slots : BeginEventSeq(r)
    \/ \E r \in Slots : Step(r)

SpecSeq == Init /\ [][NextSeq]_vars

----------------------------------------------------------------------------
(* GET /check, the admin routes of part_001, and store faults *)

\* req.query.token as callers send it; "" is no token.
Tokens == {"", "secret", " secret", "wrong"}

\* cleanText: String(v).trim(), on the strings in use (none is longer than max)
cleanText(v) == IF v = " secret" THEN "secret" ELSE v

\* adminGuard: TRUE when the request may go on, FALSE when it is answered 401
adminGuard(token) ==
    IF ADMIN_TOKEN = "" \/ cleanText(token) # ADMIN_TOKEN THEN FALSE ELSE TRUE

\* A response of a route other than GET /event.
Answer(route, device_id, code, status, error, rows) ==
    [NoResp EXCEPT !.route = route, !.device_id = device_id, !.code = code,
                   !.status = status, !.error = error, !.rows = rows]

\* catch (err) of GET /event: res.status(500).json({ error: "server_error" })
ServerError(q) == [Response(q, 500, "", "", "") EXCEPT !.error = "server_error"]

\* The device whose checks and events are followed when statements can fail
\* (its license is absent, inactive, valid or expired; see OpsRows).
OpsDevices == {"D2"}

\* What a store statement of a check does: it succeeds, the license lookup
\* throws, or the INSERT of the audit row throws.
Faults == {"none", "lookup", "log"}

\* GET /event arrives, one request at a time: the audit row is written.
BeginOps(r) ==
    /\ InFlight = {}
    /\ \E device_id \in OpsDevices, event \in {"start", "end", "ping"},
          session_id \in {""} \cup ClientSids :
          /\ event = "ping" => session_id = ""
          /\ Begin(r, device_id, event, session_id, NoDuration, "")

\* GET /event arrives and logEvent's INSERT throws: the catch answers 500
\* before validate and the session step are reached.
BeginLogFault(r) ==
    /\ InFlight = {}
    /\ reqs[r].pc = "idle"
    /\ \A r2 \in Slots : r2 < r => reqs[r2].pc # "idle"
    /\ Len(events) < MaxEvents
    /\ \E device_id \in OpsDevices, event \in {"start", "end", "ping"} :
          lastResp' = ServerError([Idle EXCEPT !.device_id = device_id, !.event = event])
    /\ UNCHANGED <<licenses, sessions, events, now, reqs, genCount, evalOut, ADMIN_TOKEN, lastStart, rateMap>>

\* The store statement a GET /event handler awaits throws (the SELECT of
\* validate, or a statement of startSession or endSession): the catch
\* answers 500.
StoreFault(r) ==
    /\ reqs[r].pc # "idle"
    /\ Respond(r, ServerError(reqs[r]))
    /\ UNCHANGED <<licenses, sessions, events, now, genCount, evalOut, ADMIN_TOKEN, lastStart, rateMap>>

\* An upsert that keeps the stored username when none is sent
upsertLicenseKeepingUsername(L, device_id, username, level, expiry, status) ==
    [L EXCEPT ![device_id] = [device_id |-> device_id,
                              username |-> IF username = "" THEN L[device_id].username
                                           ELSE username,
                              level |-> level, expiry |-> expiry, status |-> status]]

\* INSERT INTO public.licenses ... ON CONFLICT (device_id) DO UPDATE SET ...
upsertLicense(L, device_id, username, level, expiry, status) ==
    [L EXCEPT ![device_id] = [device_id |-> device_id, username |-> username,
                              level |-> level, expiry |-> expiry, status |-> status]]

\* DELETE FROM public.licenses WHERE device_id = $1
deleteLicense(L, device_id) ==
    IF device_id \in DOMAIN L THEN [L EXCEPT ![device_id] = NoLic] ELSE L

\* A GET /check that also removes the license row it finds expired
CheckPurging(device_id, fault) ==
    LET v == validate(licenses, device_id, now) IN
    /\ InFlight = {}
    /\ Len(events) < MaxEvents
    /\ device_id # ""
    /\ events' = logEvent(events, device_id, "check", v.status)
    /\ lastResp' = Answer("GET /check", device_id, 200, v.status, "", {})
    /\ licenses' = IF v.status = "expired" THEN deleteLicense(licenses, device_id)
                   ELSE licenses
    /\ UNCHANGED <<sessions, now, reqs, genCount, evalOut, ADMIN_TOKEN, lastStart, rateMap>>

\* part_001 GET /check: validate, then logEvent, then res.json(v)
Check(device_id, fault) ==
    /\ InFlight = {}
    /\ Len(events) < MaxEvents
    /\ IF device_id = "" THEN
          /\ events' = events
          /\ lastResp' = Answer("GET /check", device_id, 400, "", "device_id required", {})
       ELSE IF fault = "lookup" THEN
          /\ events' = events
          /\ lastResp' = Answer("GET /check", device_id, 500, "", "server_error", {})
       ELSE LET v == validate(licenses, device_id, now) IN
          IF fault = "log" THEN
             /\ events' = events
             /\ lastResp' = Answer("GET /check", device_id, 500, "", "server_error", {})
          ELSE
             /\ events' = logEvent(events, device_id, "check", v.status)
             /\ lastResp' = Answer("GET /check", device_id, 200, v.status, "", {})
    /\ UNCHANGED <<licenses, sessions, now, reqs, genCount, evalOut, ADMIN_TOKEN, lastStart, rateMap>>

\* A logEvent that writes the result "ok" whatever it is given
logEventCjsAlwaysOk(E, device_id, event, result, fault) ==
    IF fault = "log" THEN E
    ELSE Append(E, [device_id |-> device_id, event |-> event, result |-> "ok"])

\* index.cjs logEvent: the INSERT, any error of which is caught and dropped
logEventCjs(E, device_id, event, result, fault) ==
    IF fault = "log" THEN E
    ELSE Append(E, [device_id |-> device_id, event |-> event, result |-> result])

\* index.cjs GET /check: checkLicenseByDeviceId (which logs), and the catch
\* that answers { status: "unauthorised" }
CheckCjs(device_id, fault) ==
    /\ InFlight = {}
    /\ Len(events) < MaxEvents
    /\ IF device_id # "" /\ fault = "lookup" THEN
          /\ events' = events
          /\ lastResp' = Answer("index.cjs GET /check", device_id, 200, "unauthorised", "", {})
       ELSE LET out == checkLicenseByDeviceId(licenses, device_id, now) IN
          /\ events' = logEventCjs(events, device_id, "check",
                                   IF device_id = "" THEN "error_missing_device"
                                   ELSE out.status, fault)
          /\ lastResp' = Answer("index.cjs GET /check", device_id, 200, out.status, "", {})
    /\ UNCHANGED <<licenses, sessions, now, reqs, genCount, evalOut, ADMIN_TOKEN, lastStart, rateMap>>

\* part_001 GET /event without device_id: answered 400 before logEvent
EventNoDevice ==
    /\ InFlight = {}
    /\ \E event \in {"start", "end", "ping"} :
          lastResp' = [Answer("GET /event", "", 400, "", "device_id required", {})
                          EXCEPT !.event = event]
    /\ UNCHANGED <<licenses, sessions, events, now, reqs, genCount, evalOut, ADMIN_TOKEN, lastStart, rateMap>>

\* index.cjs GET /event: { ok: false } without device_id, else the audit row
\* (a failed INSERT is dropped) and { ok: true }; no session is touched
EventCjs(device_id, event, fault) ==
    /\ InFlight = {}
    /\ Len(events) < MaxEvents
    /\ IF device_id = "" THEN
          /\ events' = events
          /\ lastResp' = [Answer("index.cjs GET /event", device_id, 200, "", "", {})
                             EXCEPT !.event = event, !.ok = "false"]
       ELSE
          /\ events' = logEventCjs(events, device_id, event, "ok", fault)
          /\ lastResp' = [Answer("index.cjs GET /event", device_id, 200, "", "", {})
                             EXCEPT !.event = event, !.ok = "true"]
    /\ UNCHANGED <<licenses, sessions, now, reqs, genCount, evalOut, ADMIN_TOKEN, lastStart, rateMap>>

\* body.status of POST /admin/license when the field is not sent
NoStatus == "<null>"

\* The bodies POST /admin/license is called with.
UpsertBodies ==
    {[device_id |-> d, username |-> "bob", level |-> "premium", expiry |-> ExpiryDay0,
      status |-> st] :
        d \in OpsDevices \cup {""}, st \in {NoStatus, "inactive"}}

\* The bodies the license writes are called with: each field sent well
\* formed, sent with a value outside its domain, or not sent ("" for a text
\* field, NoStatus for status).
WriteBodies ==
    {[device_id |-> d, username |-> u, level |-> lvl, expiry |-> e, status |-> st] :
        d \in OpsDevices \cup {""}, u \in {"bob", ""}, lvl \in {"premium", "gold"},
        e \in {ExpiryDay0, BadExpiry},
        st \in {NoStatus, "inactive", "ACTIVE", "banned"}}

\* POST /admin/license
AdminUpsert(token, body) ==
    /\ InFlight = {}
    /\ IF ~adminGuard(token) THEN
          /\ licenses' = licenses
          /\ lastResp' = Answer("POST /admin/license", body.device_id, 401, "", "unauthorised", {})
       ELSE IF body.device_id = "" THEN
          /\ licenses' = licenses
          /\ lastResp' = Answer("POST /admin/license", body.device_id, 400, "",
                                "device_id required", {})
       ELSE
          \/ /\ licenses' = upsertLicense(licenses, body.device_id,
                                          cleanText(body.username), cleanText(body.level),
                                          cleanText(body.expiry),
                                          IF body.status = NoStatus THEN "active"
                                          ELSE cleanText(body.status))
             /\ lastResp' = Answer("POST /admin/license", body.device_id, 200, "ok", "", {})
          \* the store may refuse a text that is no date (the column type is
          \* not fixed by the code); the catch answers 500
          \/ /\ body.expiry \notin ExpiryDates \cup {NoExpiry}
             /\ licenses' = licenses
             /\ lastResp' = Answer("POST /admin/license", body.device_id, 500, "",
                                   "server_error", {})
    /\ UNCHANGED <<sessions, events, now, reqs, genCount, evalOut, ADMIN_TOKEN, lastStart, rateMap>>

\* A DELETE /admin/license that also ends the running sessions of the device
AdminDeleteEndingSessions(token, device_id) ==
    /\ InFlight = {}
    /\ adminGuard(token)
    /\ device_id # ""
    /\ licenses' = deleteLicense(licenses, device_id)
    /\ sessions' = [i \in Rows(sessions) |->
                      IF i \in RunningOf(sessions, device_id)
                      THEN Closed(sessions[i], "ended",
                                  ElapsedSec(sessions[i].start_time, now), now)
                      ELSE sessions[i]]
    /\ lastResp' = Answer("DELETE /admin/license", device_id, 200, "ok", "", {})
    /\ UNCHANGED <<events, now, reqs, genCount, evalOut, ADMIN_TOKEN, lastStart, rateMap>>

\* DELETE /admin/license
AdminDelete(token, device_id) ==
    /\ InFlight = {}
    /\ IF ~adminGuard(token) THEN
          /\ licenses' = licenses
          /\ lastResp' = Answer("DELETE /admin/license", device_id, 401, "", "unauthorised", {})
       ELSE IF device_id = "" THEN
          /\ licenses' = licenses
          /\ lastResp' = Answer("DELETE /admin/license", device_id, 400, "",
                                "device_id required", {})
       ELSE
          /\ licenses' = deleteLicense(licenses, device_id)
          /\ lastResp' = Answer("DELETE /admin/license", device_id, 200, "ok", "", {})
    /\ UNCHANGED <<sessions, events, now, reqs, genCount, evalOut, ADMIN_TOKEN, lastStart, rateMap>>

\* The rows of the three tables as the admin lists select them; the event
\* rows carry their serial id.  (No table of the model reaches the LIMIT.)
LicenseRows(L) == {L[d] : d \in DOMAIN L} \ {NoLic}
EventRows(E, device_id) ==
    {[id |-> i, device_id |-> E[i].device_id, event |-> E[i].event, result |-> E[i].result] :
        i \in {j \in 1 .. Len(E) : device_id = "" \/ E[j].device_id = device_id}}
SessionRows(S, device_id) ==
    {S[i] : i \in {j \in Rows(S) : device_id = "" \/ S[j].device_id = device_id}}

\* GET /admin/licenses, GET /admin/events and GET /admin/sessions
AdminList(route, token, device_id) ==
    /\ InFlight = {}
    /\ route = "GET /admin/licenses" => device_id = ""
    /\ IF ~adminGuard(token) THEN
          lastResp' = Answer(route, device_id, 401, "", "unauthorised", {})
       ELSE
          lastResp' = Answer(route, device_id, 200, "", "",
                             CASE route = "GET /admin/licenses" -> LicenseRows(licenses)
                               [] route = "GET /admin/events" -> EventRows(events, device_id)
                               [] OTHER -> SessionRows(sessions, device_id))
    /\ UNCHANGED <<licenses, sessions, events, now, reqs, genCount, evalOut, ADMIN_TOKEN, lastStart, rateMap>>

ListRoutes == {"GET /admin/licenses", "GET /admin/events", "GET /admin/sessions"}

\* The license rows the checks and events of SpecOps meet: D1 holds a license
\* valid at every instant; D2 holds none, an inactive one, or an active one
\* that expires with day 0.
OpsRows == {NoLic, LicRow("D2", "lite", ExpiryDay1, "inactive"),
            LicRow("D2", "lite", ExpiryDay0, "active")}

InitOps ==
    /\ licenses \in {[d \in Devices |->
                        IF d = "D1" THEN LicRow(d, "premium", ExpiryDay1, "active")
                        ELSE row] : row \in OpsRows}
    /\ sessions = <<>>
    /\ events = <<>>
    /\ now = Instants[1]
    /\ reqs = [r \in Slots |-> Idle]
    /\ genCount = 0
    /\ lastResp = NoResp
    /\ evalOut = NoEval
    /\ ADMIN_TOKEN = "secret"
    /\ lastStart = [d \in Devices |-> NULL]
    /\ rateMap = [ip \in Addresses |-> NoEntry]

\* Checks and events, one request at a time, every store statement able to
\* fail.
NextOps ==
    \/ Tick
    \/ \E r \in Slots : BeginOps(r)
    \/ \E r \in Slots : BeginLogFault(r)
    \/ \E r \in Slots : Step(r)
    \/ \E r \in Slots : StoreFault(r)
    \/ \E device_id \in OpsDevices \cup {""}, fault \in Faults : Check(device_id, fault)
    \/ \E device_id \in OpsDevices \cup {""}, fault \in Faults : CheckCjs(device_id, fault)
    \/ EventNoDevice
    \/ \E device_id \in OpsDevices \cup {""}, event \in {"start", "end"},
          fault \in {"none", "log"} : EventCjs(device_id, event, fault)

SpecOps == InitOps /\ [][NextOps]_vars

\* GET /event arrives, one request at a time: a start, an end or a ping
\* without session_id.
BeginAdm(r) ==
    /\ InFlight = {}
    /\ \E device_id \in OpsDevices, event \in {"start", "end", "ping"} :
          Begin(r, device_id, event, "", NoDuration, "")

\* The server starts with ADMIN_TOKEN configured or not.
InitAdmin ==
    /\ licenses = [d \in Devices |->
                     IF d = "D1" THEN LicRow(d, "premium", ExpiryDay1, "active")
                     ELSE LicRow(d, "lite", ExpiryDay0, "active")]
    /\ sessions = <<>>
    /\ events = <<>>
    /\ now = Instants[1]
    /\ reqs = [r \in Slots |-> Idle]
    /\ genCount = 0
    /\ lastResp = NoResp
    /\ evalOut = NoEval
    /\ ADMIN_TOKEN \in {"", "secret"}
    /\ lastStart = [d \in Devices |-> NULL]
    /\ rateMap = [ip \in Addresses |-> NoEntry]

\* Checks, events and admin requests, one request at a time.
NextAdmin ==
    \/ Tick
    \/ \E r \in Slots : BeginAdm(r)
    \/ \E r \in Slots : Validate(r)
    \/ \E r \in Slots : Abort(r)
    \/ \E r \in Slots : Insert(r)
    \/ \E r \in Slots : EndSelect(r)
    \/ \E r \in Slots : EndUpdate(r)
    \/ \E device_id \in OpsDevices : Check(device_id, "none")
    \/ \E token \in {"secret", "wrong"}, body \in UpsertBodies : AdminUpsert(token, body)
    \/ \E token \in {"secret", "wrong"}, device_id \in OpsDevices \cup {""} :
          AdminDelete(token, device_id)

SpecAdmin == InitAdmin /\ [][NextAdmin]_vars

\* The admin routes called with every token, between starts that fill the
\* tables.
NextGuard ==
    \/ \E r \in Slots : InFlight = {} /\ \E device_id \in OpsDevices :
                            Begin(r, device_id, "start", "", NoDuration, "")
    \/ \E r \in Slots : Validate(r)
    \/ \E r \in Slots : Abort(r)
    \/ \E r \in Slots : Insert(r)
    \/ \E token \in Tokens, body \in UpsertBodies : AdminUpsert(token, body)
    \/ \E token \in Tokens, device_id \in OpsDevices \cup {""} : AdminDelete(token, device_id)
    \/ \E route \in ListRoutes, token \in Tokens, device_id \in OpsDevices \cup {""} :
          AdminList(route, token, device_id)

SpecGuard == InitAdmin /\ [][NextGuard]_vars

----------------------------------------------------------------------------
(* The license store under the admin writes *)

\* cleanText of a body field: "" when the field is not sent
bodyText(v) == IF v = NoStatus THEN "" ELSE cleanText(v)

\* part_003 POST /admin/licenses: the date pattern and the round trip
\* through Date and toISOString
validDate(expiry) == expiry \in ExpiryDates

\* An INSERT that replaces the row of an existing device_id
insertLicenseReplacing(L, row) == [L EXCEPT ![row.device_id] = row]

\* INSERT INTO public.licenses ... VALUES ($1,$2,$3,$4,$5): a row whose
\* device_id exists raises the unique violation 23505 and writes nothing
insertLicense(L, row) ==
    IF L[row.device_id] # NoLic THEN L ELSE [L EXCEPT ![row.device_id] = row]

\* part_003 POST /admin/licenses: token test, required fields, level,
\* status and expiry validation, then a plain INSERT; the unique violation
\* 23505 of an existing device_id is answered 400 "device_id exists"
AdminInsert(token, body) ==
    LET Reject(code, error) ==
            /\ licenses' = licenses
            /\ lastResp' = Answer("POST /admin/licenses", body.device_id, code, "", error, {})
        device_id == bodyText(body.device_id)
        username == bodyText(body.username)
        level == bodyText(body.level)
        expiry == bodyText(body.expiry)
        status == bodyText(body.status)
        row == [device_id |-> device_id, username |-> username,
                level |-> ToLowerCase(level), expiry |-> expiry,
                status |-> ToLowerCase(status)]
    IN  /\ InFlight = {}
        /\ IF ADMIN_TOKEN = "" \/ cleanText(token) # ADMIN_TOKEN
              THEN Reject(401, "unauthorised")
           ELSE IF device_id = "" THEN Reject(400, "device_id required")
           ELSE IF username = "" THEN Reject(400, "username required")
           ELSE IF level = "" THEN Reject(400, "level required")
           ELSE IF expiry = "" THEN Reject(400, "expiry required")
           ELSE IF status = "" THEN Reject(400, "status required")
           ELSE IF ToLowerCase(level) \notin {"lite", "premium"}
              THEN Reject(400, "level invalid")
           ELSE IF ToLowerCase(status) \notin {"active", "inactive"}
              THEN Reject(400, "status invalid")
           ELSE IF ~validDate(expiry) THEN Reject(400, "expiry invalid")
           ELSE /\ licenses' = insertLicense(licenses, row)
                /\ lastResp' = IF licenses[device_id] # NoLic
                               THEN Answer("POST /admin/licenses", device_id, 400, "",
                                           "device_id exists", {})
                               ELSE Answer("POST /admin/licenses", device_id, 200, "", "",
                                           {row})
        /\ UNCHANGED <<sessions, events, now, reqs, genCount, evalOut, ADMIN_TOKEN, lastStart, rateMap>>

\* The license writes of part_001 and part_003 and the delete of part_001,
\* called with every body.
NextLic ==
    \/ \E token \in {"secret", "wrong"}, body \in WriteBodies : AdminUpsert(token, body)
    \/ \E token \in {"secret", "wrong"}, body \in WriteBodies : AdminInsert(token, body)
    \/ \E token \in {"secret", "wrong"}, device_id \in OpsDevices \cup {""} :
          AdminDelete(token, device_id)

SpecLic == Init /\ [][NextLic]_vars

----------------------------------------------------------------------------
(* Ends that meet several running sessions of one device *)

\* part_002 safeInt: parseInt(v, 10), null unless finite and >= 0
safeInt(v) == IF v = "7.9" THEN 7 ELSE NULL

\* part_002 endSessionFromEvent: the tables its SELECT (latest running row)
\* and its UPDATE ... WHERE id = $1 can leave; the elapsed time is not
\* clamped at 0 here
endSessionFromEvent(S, device_id, durationSec, t) ==
    IF LatestRunning(S, device_id) = {} THEN {S}
    ELSE {[S EXCEPT ![i] = Closed(S[i], "ended",
                                  IF durationSec = NULL
                                  THEN EpochInt(t - S[i].start_time)
                                  ELSE durationSec, t)] :
            i \in LatestRunning(S, device_id)}

\* part_002 abortRunningSessions: one UPDATE that closes every running row
\* of the device; the elapsed time is not clamped at 0
abortRunningSessions(S, device_id, t) ==
    [i \in Rows(S) |->
        IF i \in RunningOf(S, device_id)
        THEN Closed(S[i], "aborted", EpochInt(t - S[i].start_time), t)
        ELSE S[i]]

\* part_002 startSessionFromEvent: abortRunningSessions, then a plain
\* INSERT of a row with a new session id
startSessionFromEvent(S, sid, device_id, level, t) ==
    Append(abortRunningSessions(S, device_id, t),
           [session_id |-> sid, device_id |-> device_id,
            level |-> IF level = "" THEN "unknown" ELSE level,
            start_time |-> t, end_time |-> NULL, status |-> "running",
            duration_sec |-> NULL])

\* part_002 GET /event with event=start, while no other request is in
\* flight: the audit row, startSessionFromEvent, and the answer
StartFromEvent(device_id, script) ==
    /\ InFlight = {}
    /\ Len(events) < MaxEvents
    /\ events' = Append(events, [device_id |-> device_id, event |-> "start", result |-> "ok"])
    /\ sessions' = startSessionFromEvent(sessions, GenIds[genCount + 1], device_id,
                                         script, now)
    /\ genCount' = genCount + 1
    /\ lastResp' = [Answer("part_002 GET /event", device_id, 200, "ok", "", {})
                       EXCEPT !.event = "start", !.session = "session_start",
                              !.session_id = GenIds[genCount + 1]]
    /\ UNCHANGED <<licenses, now, reqs, evalOut, ADMIN_TOKEN, lastStart, rateMap>>

\* part_002 GET /event with event=end, while no other request is in flight:
\* the audit row, endSessionFromEvent, and the answer with closed
EndFromEvent(device_id, rawDuration) ==
    /\ InFlight = {}
    /\ Len(events) < MaxEvents
    /\ events' = Append(events, [device_id |-> device_id, event |-> "end", result |-> "ok"])
    /\ sessions' \in endSessionFromEvent(sessions, device_id, safeInt(rawDuration), now)
    /\ lastResp' = [Answer("part_002 GET /event", device_id, 200, "ok", "", {})
                       EXCEPT !.event = "end",
                              !.session = IF LatestRunning(sessions, device_id) = {}
                                          THEN "not_closed" ELSE "closed"]
    /\ UNCHANGED <<licenses, now, reqs, genCount, evalOut, ADMIN_TOKEN, lastStart, rateMap>>

\* Starts and ends without session_id, the handlers of
\* part_001 interleaved at their store statements (so that overlapping
\* starts leave several running rows), and starts and ends by part_002.
NextRace ==
    \/ Tick
    \/ \E r \in Slots, device_id \in Devices, event \in {"start", "end"} :
          Begin(r, device_id, event, "", NoDuration, "")
    \/ \E r \in Slots : Validate(r)
    \/ \E r \in Slots : Abort(r)
    \/ \E r \in Slots : Insert(r)
    \/ \E r \in Slots : EndSelect(r)
    \/ \E r \in Slots : EndUpdate(r)
    \/ \E device_id \in Devices, script \in {"", "premium"} :
          StartFromEvent(device_id, script)
    \/ \E device_id \in Devices, rawDuration \in Durations :
          EndFromEvent(device_id, rawDuration)

SpecRace == Init /\ [][NextRace]_vars

----------------------------------------------------------------------------
(* The session routes of index.cjs and of the Postgres section of index.js *)

\* A session row as the plain INSERTs of these routes write it.
NewRow(sid, device_id, level, t) ==
    [session_id |-> sid, device_id |-> device_id, level |-> level,
     start_time |-> t, end_time |-> NULL, status |-> "running", duration_sec |-> NULL]

\* UPDATE sessions SET end_time = now(), status = 'ended', duration_sec = ...
\* WHERE session_id = $1 AND device_id = $2 AND status = 'running'
updateRunning(S, device_id, sid, t, clamp) ==
    [i \in Rows(S) |->
        IF S[i].session_id = sid /\ S[i].device_id = device_id /\ S[i].status = "running"
        THEN Closed(S[i], "ended",
                    IF clamp THEN ElapsedSec(S[i].start_time, t)
                    ELSE EpochInt(t - S[i].start_time), t)
        ELSE S[i]]

\* index.cjs POST /start: 400 without device_id; a plain INSERT of a
\* running row under the session_id sent or a new one (an existing
\* session_id makes the INSERT fail: 500); then the audit row and
\* { status: "started", session_id }.  The license is not read.
StartCjs(device_id, session_id, level) ==
    LET sid == IF session_id # "" THEN session_id ELSE GenIds[genCount + 1] IN
    /\ InFlight = {}
    /\ Len(events) < MaxEvents
    /\ IF device_id = "" THEN
          /\ UNCHANGED <<sessions, events, genCount>>
          /\ lastResp' = Answer("POST /start", device_id, 400, "", "device_id required", {})
       ELSE IF \E i \in Rows(sessions) : sessions[i].session_id = sid THEN
          /\ UNCHANGED <<sessions, events, genCount>>
          /\ lastResp' = Answer("POST /start", device_id, 500, "", "server_error", {})
       ELSE
          /\ sessions' = Append(sessions, NewRow(sid, device_id, level, now))
          /\ events' = logEventCjs(events, device_id, "start", "ok", "none")
          /\ genCount' = IF session_id # "" THEN genCount ELSE genCount + 1
          /\ lastResp' = [Answer("POST /start", device_id, 200, "started", "", {})
                             EXCEPT !.event = "start", !.session = "started",
                                    !.session_id = sid]
    /\ UNCHANGED <<licenses, now, reqs, evalOut, ADMIN_TOKEN, lastStart, rateMap>>

\* index.cjs POST /end: 400 without device_id or session_id; the UPDATE of
\* the running row with that session_id and device_id; then the audit row
\* and { status: "ended" }.  The license is not read.
EndCjs(device_id, session_id) ==
    /\ InFlight = {}
    /\ Len(events) < MaxEvents
    /\ IF device_id = "" \/ session_id = "" THEN
          /\ UNCHANGED <<sessions, events>>
          /\ lastResp' = Answer("POST /end", device_id, 400, "",
                                IF device_id = "" THEN "device_id required"
                                ELSE "session_id required", {})
       ELSE
          /\ sessions' = updateRunning(sessions, device_id, session_id, now, FALSE)
          /\ events' = logEventCjs(events, device_id, "end", "ok", "none")
          /\ lastResp' = [Answer("POST /end", device_id, 200, "ended", "", {})
                             EXCEPT !.event = "end", !.session = "ended",
                                    !.session_id = session_id]
    /\ UNCHANGED <<licenses, now, reqs, genCount, evalOut, ADMIN_TOKEN, lastStart, rateMap>>

\* index.js POST /event (Postgres section): the audit row always; start
\* inserts a running row under a new id; end takes the session_id sent or
\* that of the latest running row of the device and ends the running row
\* with it.  The license is not read.
EventJs(device_id, event, session_id) ==
    /\ InFlight = {}
    /\ Len(events) < MaxEvents
    /\ events' = Append(events, [device_id |-> device_id, event |-> event, result |-> "ok"])
    /\ IF event = "start" THEN
          /\ sessions' = Append(sessions, NewRow(GenIds[genCount + 1], device_id, "", now))
          /\ genCount' = genCount + 1
          /\ lastResp' = [Answer("index.js POST /event", device_id, 200, "ok", "", {})
                             EXCEPT !.event = event, !.session_id = GenIds[genCount + 1]]
       ELSE
          /\ genCount' = genCount
          /\ \E sid \in IF session_id # "" THEN {session_id}
                         ELSE IF LatestRunning(sessions, device_id) = {} THEN {""}
                         ELSE {sessions[i].session_id : i \in LatestRunning(sessions, device_id)} :
                /\ sessions' = IF sid = "" THEN sessions
                               ELSE updateRunning(sessions, device_id, sid, now, TRUE)
                /\ lastResp' = [Answer("index.js POST /event", device_id, 200, "ok", "", {})
                                   EXCEPT !.event = event, !.session_id = sid]
    /\ UNCHANGED <<licenses, now, reqs, evalOut, ADMIN_TOKEN, lastStart, rateMap>>

\* The session routes that read no license, for a device whose license is
\* absent, inactive, or active until the end of day 0.
NextPost ==
    \/ Tick
    \/ \E device_id \in OpsDevices \cup {""}, session_id \in {""} \cup ClientSids :
          StartCjs(device_id, session_id, "lite")
    \/ \E device_id \in OpsDevices, session_id \in {""} \cup KnownSids :
          EndCjs(device_id, session_id)
    \/ \E device_id \in OpsDevices, event \in {"start", "end"},
          session_id \in {""} \cup KnownSids : EventJs(device_id, event, session_id)
    \/ \E device_id \in OpsDevices : StartFromEvent(device_id, "")
    \/ \E device_id \in OpsDevices : EndFromEvent(device_id, NoDuration)

SpecPost == InitOps /\ [][NextPost]_vars

----------------------------------------------------------------------------
(* POST /event of the file-backed server (index.js) *)

\* Math.round((Date.now() - st) / 60000): minutes, rounded to the nearest
RoundMinutes(ms) == (ms + 30000) \div 60000

\* No duration in a log record (null, or the key left out).
NoLogged == [client |-> "", n |-> NULL]

\* duration_final of an end: the duration sent when Number(duration) is
\* finite and >= 0, else the minutes since lastStart.get(device_id) when
\* there is one, else null
durationFinal(rawDuration, st, t) ==
    LET n == IF rawDuration = NoDuration THEN NaN ELSE NumberOf(rawDuration) IN
    IF ~n.nan /\ n.n >= 0 THEN [client |-> rawDuration, n |-> NULL]
    ELSE IF st # NULL THEN [client |-> "", n |-> RoundMinutes(t - st)]
    ELSE NoLogged

\* index.js POST /event (file-backed): 400 without device_id or with an
\* event other than start and end; checkLicense; lastStart is set by a
\* start and deleted by an end whatever the license; the log record (kept
\* in events, with its duration) is appended; { status: "ok" }.
FileEvent(device_id, event, rawDuration) ==
    LET lic == checkLicense(licenses, device_id, now)
        final == IF event = "end"
                 THEN durationFinal(rawDuration, lastStart[device_id], now)
                 ELSE NoLogged
        logged == IF event # "end" THEN NoLogged
                  ELSE IF lic.status = "valid" /\ final = NoLogged
                  THEN [client |-> "", n |-> 0]
                  ELSE final
    IN
    /\ InFlight = {}
    /\ Len(events) < MaxEvents
    /\ IF device_id = "" \/ event \notin {"start", "end"} THEN
          /\ UNCHANGED <<events, lastStart>>
          /\ lastResp' = [Answer("index.js POST /event (file)", device_id, 400, "error",
                                 IF device_id = "" THEN "device_id required"
                                 ELSE "event must be start or end", {})
                             EXCEPT !.event = event]
       ELSE
          /\ lastStart' = [lastStart EXCEPT ![device_id] =
                              IF event = "start" THEN now ELSE NULL]
          /\ events' = Append(events, [device_id |-> device_id, event |-> event,
                                       result |-> lic.status, duration |-> logged])
          /\ lastResp' = [Answer("index.js POST /event (file)", device_id, 200, "ok", "", {})
                             EXCEPT !.event = event, !.reason = lic.status]
    /\ UNCHANGED <<licenses, sessions, now, reqs, genCount, evalOut, ADMIN_TOKEN, rateMap>>

\* Starts and ends sent to the file-backed server as time passes.
NextFile ==
    \/ Tick
    \/ \E device_id \in Devices \cup {""}, event \in {"start", "end", "ping"},
          rawDuration \in Durations : FileEvent(device_id, event, rawDuration)

SpecFile == InitOps /\ [][NextFile]_vars

----------------------------------------------------------------------------
(* The limiter in front of every route of part_001 *)

RL_WINDOW_MS == 60000

RL_MAX_REQ == 120

\* Requests one address sends beyond the limit in one window; the second
\* address sends no more than this many in a window.
MaxOver == 2

\* The instants of the limited requests: the first, the last millisecond
\* that is not yet more than RL_WINDOW_MS later, and the one after it.
RateInstants == <<Instants[1], Instants[1] + RL_WINDOW_MS, Instants[1] + RL_WINDOW_MS + 1>>

\* A limiter whose window starts again at every request
rateLimitFromLastRequest(M, ip, t) ==
    LET entry == IF M[ip] = NoEntry THEN [n |-> 0, t |-> t] ELSE M[ip]
        fresh == IF t - entry.t > RL_WINDOW_MS THEN [n |-> 0, t |-> t] ELSE entry
    IN [n |-> fresh.n + 1, t |-> t]

\* rateLimit: entry = rateMap.get(ip) || { n: 0, t: now }; a window older
\* than RL_WINDOW_MS is started again (n = 0, t = now); entry.n += 1.  The
\* result is the entry that rateMap.set(ip, entry) stores.
rateLimit(M, ip, t) ==
    LET entry == IF M[ip] = NoEntry THEN [n |-> 0, t |-> t] ELSE M[ip]
        fresh == IF t - entry.t > RL_WINDOW_MS THEN [n |-> 0, t |-> t] ELSE entry
    IN [n |-> fresh.n + 1, t |-> fresh.t]

\* The clock of the limited requests.
RateTick ==
    /\ \E i \in 1..(Len(RateInstants) - 1) :
          /\ now = RateInstants[i]
          /\ now' = RateInstants[i + 1]
    /\ UNCHANGED <<licenses, sessions, events, reqs, genCount, lastResp, evalOut,
                   ADMIN_TOKEN, lastStart, rateMap>>

\* A request of address ip to GET / or GET /check: app.use(rateLimit) runs
\* first and answers 429 { error: "rate_limited" } without next() when
\* entry.n > RL_MAX_REQ; else the route runs (GET /: { status: "ok" };
\* GET /check: validate, logEvent, res.json(v)).
Limited(ip, route, device_id) ==
    LET entry == rateLimit(rateMap, ip, now)
        v == validate(licenses, device_id, now)
    IN
    /\ InFlight = {}
    /\ rateMap[ip].n < (IF ip = "10.0.0.1" THEN RL_MAX_REQ + MaxOver ELSE MaxOver)
    /\ (entry.n <= RL_MAX_REQ /\ route = "GET /check" /\ device_id # "")
          => Len(events) < MaxEvents
    /\ rateMap' = [rateMap EXCEPT ![ip] = entry]
    /\ IF entry.n > RL_MAX_REQ THEN
          /\ events' = events
          /\ lastResp' = Answer(route, "", 429, "", "rate_limited", {})
       ELSE IF route = "GET /" THEN
          /\ events' = events
          /\ lastResp' = Answer(route, "", 200, "ok", "", {})
       ELSE IF device_id = "" THEN
          /\ events' = events
          /\ lastResp' = Answer(route, device_id, 400, "", "device_id required", {})
       ELSE
          /\ events' = logEvent(events, device_id, "check", v.status)
          /\ lastResp' = Answer(route, device_id, 200, v.status, "", {})
    /\ UNCHANGED <<licenses, sessions, now, reqs, genCount, evalOut, ADMIN_TOKEN, lastStart>>

\* The limited requests: route and device_id.
RateRequests == {<<"GET /", "">>, <<"GET /check", "">>, <<"GET /check", "D2">>}

\* Requests of two addresses passing the limiter as a window runs out.
NextRate ==
    \/ RateTick
    \/ \E ip \in Addresses, q \in RateRequests : Limited(ip, q[1], q[2])

SpecRate == InitOps /\ [][NextRate]_vars

----------------------------------------------------------------------------
(* The license evaluators applied to bounded stores and instants *)

\* Instants around the end of day 0 and of day 1: noon, 23:59:59.000,
\* 23:59:59.500, 23:59:59.999 of day 0; 00:00:00.000, 00:00:00.500 and
\* 00:00:01.000 of day 1; 23:59:59.000 of day 1; 00:00:01.000 of day 2.
EvalInstants ==
    {DayMs \div 2, DayMs - 1000, DayMs - 500, DayMs - 1,
     DayMs, DayMs + 500, DayMs + 1000,
     2 * DayMs - 1000, 2 * DayMs + 1000}

Statuses == {"active", "ACTIVE", "inactive"}

EvalRows(d) ==
    {NoLic} \cup {LicRow(d, "premium", e, st) : e \in Expiries, st \in Statuses}

\* A check of device_id at the instant now, by each evaluator.
EvalCheck(device_id) ==
    /\ evalOut' = [device_id |-> device_id, at |-> now,
                   lic |-> licenses[device_id],
                   validate |-> validate(licenses, device_id, now),
                   cjs |-> checkLicenseByDeviceId(licenses, device_id, now),
                   file |-> checkLicense(licenses, device_id, now),
                   route |-> validateRoute(licenses, device_id, now),
                   part002 |-> checkPart002(licenses, device_id, now),
                   post |-> checkPost(licenses, device_id, now)]
    /\ UNCHANGED <<licenses, sessions, events, now, reqs, genCount, lastResp, ADMIN_TOKEN, lastStart, rateMap>>

EvalTick ==
    /\ \E t \in EvalInstants :
          /\ t > now
          /\ \A u \in EvalInstants : u > now => t <= u
          /\ now' = t
    /\ UNCHANGED <<licenses, sessions, events, reqs, genCount, lastResp, evalOut, ADMIN_TOKEN, lastStart, rateMap>>

InitEval ==
    /\ licenses \in {[d \in Devices |-> IF d = "D1" THEN row ELSE NoLic] :
                        row \in EvalRows("D1")}
    /\ sessions = <<>>
    /\ events = <<>>
    /\ now \in EvalInstants
    /\ reqs = [r \in Slots |-> Idle]
    /\ genCount = 0
    /\ lastResp = NoResp
    /\ evalOut = NoEval
    /\ ADMIN_TOKEN = "secret"
    /\ lastStart = [d \in Devices |-> NULL]
    /\ rateMap = [ip \in Addresses |-> NoEntry]

NextEval ==
    \/ \E device_id \in Devices : EvalCheck(device_id)
    \/ EvalTick

SpecEval == InitEval /\ [][NextEval]_vars

----------------------------------------------------------------------------
(* Properties of the session tracker *)

RunningRows(S, d) == {i \in Rows(S) : S[i].device_id = d /\ S[i].status = "running"}

Terminal == {"ended", "aborted"}

\* C1: when requests do not overlap, every device has at most one session
\* row with status running, in every reachable state.
C1_AtMostOneRunning ==
    \A d \in Devices : Cardinality(RunningRows(sessions, d)) <= 1

\* C1 witness: a second start has aborted the session of a first one and
\* left its own session running.
C1_Witness ==
    \E d \in Devices :
        /\ InFlight = {}
        /\ Cardinality(RunningRows(sessions, d)) = 1
        /\ \E i \in Rows(sessions) :
              sessions[i].device_id = d /\ sessions[i].status = "aborted"

\* C2: under every interleaving of the store operations of concurrent start
\* requests, no two session rows of one device are running together.
C2_NoTwoRunningRows ==
    \A i, j \in Rows(sessions) :
        (i < j /\ sessions[i].device_id = sessions[j].device_id)
            => ~(sessions[i].status = "running" /\ sessions[j].status = "running")

\* C3: a session row with status ended or aborted keeps its status, its
\* end_time and its duration_sec in every later step.
C3_TerminalIsFinal ==
    [][\A i \in Rows(sessions) :
          sessions[i].status \in Terminal =>
              /\ sessions'[i].status = sessions[i].status
              /\ sessions'[i].end_time = sessions[i].end_time
              /\ sessions'[i].duration_sec = sessions[i].duration_sec]_vars

\* C4: when a start of a device follows directly on a start of the same
\* device, it is answered "started", afterwards exactly one session of the
\* device is running, namely the one the second start names, and the session
\* of the first start is aborted with a duration_sec >= 0.
C4_SecondStartAbortsFirst ==
    [][\A r \in Slots :
          (/\ reqs[r].pc = "insert"
           /\ reqs'[r].pc = "idle"
           /\ lastResp.event = "start"
           /\ lastResp.session = "started"
           /\ lastResp.device_id = reqs[r].device_id)
          => LET d == reqs[r].device_id IN
             /\ lastResp'.code = 200
             /\ lastResp'.session = "started"
             /\ Cardinality(RunningRows(sessions', d)) = 1
             /\ \A i \in RunningRows(sessions', d) :
                   sessions'[i].session_id = lastResp'.session_id
             /\ \E i \in Rows(sessions') :
                   /\ sessions'[i].session_id = lastResp.session_id
                   /\ sessions'[i].device_id = d
                   /\ sessions'[i].status = "aborted"
                   /\ sessions'[i].duration_sec >= 0]_vars

\* An end request q matches no running session of its device in table S.
NoMatch(q, S) ==
    IF q.session_id = "" THEN RunningRows(S, q.device_id) = {}
    ELSE ~\E i \in RunningRows(S, q.device_id) : S[i].session_id = q.session_id

\* C5: an end request of a valid device that matches no running session of
\* the device changes no session row and is answered session "not_found".
C5_EndWithoutMatchIsNoOp ==
    [][\A r \in Slots :
          (/\ reqs[r].pc \in {"endById", "endSelect", "endUpdate"}
           /\ reqs'[r].pc = "idle"
           /\ NoMatch(reqs[r], sessions))
          => /\ sessions' = sessions
             /\ lastResp'.code = 200
             /\ lastResp'.session = "not_found"]_vars

\* The duration_sec the close of a session started at start_time has to
\* store at instant t for the duration text raw: the client's duration (its
\* whole seconds) when it is a number >= 0, else the elapsed whole seconds,
\* at least 0.
ExpectedDuration(raw, start_time, t) ==
    IF raw # NoDuration /\ ~NumberOf(raw).nan /\ NumberOf(raw).n >= 0
    THEN NumberOf(raw).n \div 10
    ELSE Max((t - start_time) \div 1000, 0)

\* C6: when an end request closes a session, the stored duration_sec is the
\* client's duration if one is given and is >= 0, and otherwise the elapsed
\* time from start_time to now in whole seconds, at least 0.
C6_StoredDuration ==
    [][\A r \in Slots : \A i \in Rows(sessions) :
          (/\ reqs[r].pc \in {"endById", "endUpdate"}
           /\ reqs'[r].pc = "idle"
           /\ sessions[i].status = "running"
           /\ sessions'[i].status = "ended")
          => sessions'[i].duration_sec =
                ExpectedDuration(reqs[r].rawDuration, sessions[i].start_time, now)]_vars

----------------------------------------------------------------------------
(* Properties of the license evaluators *)

FourStatuses == {"unauthorised", "inactive", "expired", "valid"}

\* Last instant of the day of a calendar date at which the license still has
\* to be valid (23:59:59), first instant at which it has to be expired
\* (00:00:01 of the next day).
LastValidInstant(e) == DayOf(e) * DayMs + DayMs - 1000
FirstExpiredInstant(e) == (DayOf(e) + 1) * DayMs + 1000

\* The status st answered for license row lic at instant t follows the
\* precedence missing -> inactive -> expired -> valid.
FollowsPrecedence(st, lic, t) ==
    /\ st \in FourStatuses
    /\ lic = NoLic => st = "unauthorised"
    /\ (lic # NoLic /\ lic.status = "inactive") => st = "inactive"
    /\ (lic # NoLic /\ lic.status = "active" /\ lic.expiry \in ExpiryDates
          /\ t >= FirstExpiredInstant(lic.expiry)) => st = "expired"
    /\ (lic # NoLic /\ lic.status = "active" /\ lic.expiry \in ExpiryDates
          /\ t <= LastValidInstant(lic.expiry)) => st = "valid"

Evaluated == evalOut.device_id # ""

\* C7: each evaluator (validate of part_001, checkLicenseByDeviceId of
\* index.cjs, GET /validate of index.js) answers one of the four statuses,
\* by the precedence missing -> inactive -> expired -> valid.
C7_FixedPrecedence ==
    Evaluated =>
        /\ FollowsPrecedence(evalOut.validate.status, evalOut.lic, evalOut.at)
        /\ FollowsPrecedence(evalOut.cjs.status, evalOut.lic, evalOut.at)
        /\ FollowsPrecedence(evalOut.route, evalOut.lic, evalOut.at)

\* C8: for a device with no license row, validate answers exactly
\* {status: unauthorised}: no other status and no username, level or expiry.
C8_AbsentIsUnauthorised ==
    (Evaluated /\ evalOut.lic = NoLic) =>
        /\ evalOut.validate.status = "unauthorised"
        /\ DOMAIN evalOut.validate = {"status"}

\* C8 witness: a device without a license row has been checked after the
\* end of day 1.
C8_Witness ==
    /\ Evaluated
    /\ evalOut.lic = NoLic
    /\ evalOut.at > 2 * DayMs
    /\ evalOut.validate.status = "unauthorised"

\* C9: an active license with expiry date D is valid at every instant up to
\* 23:59:59 UTC of D and expired at every instant from 00:00:01 UTC of the
\* day after D, for isExpired of part_001 and of index.cjs.
C9_ValidThroughEndOfDay ==
    (/\ Evaluated
     /\ evalOut.lic # NoLic
     /\ ToLowerCase(evalOut.lic.status) = "active"
     /\ evalOut.lic.expiry \in ExpiryDates)
    => /\ evalOut.at <= LastValidInstant(evalOut.lic.expiry)
            => /\ evalOut.validate.status = "valid"
               /\ evalOut.cjs.status = "valid"
       /\ evalOut.at >= FirstExpiredInstant(evalOut.lic.expiry)
            => /\ evalOut.validate.status = "expired"
               /\ evalOut.cjs.status = "expired"

\* C9 witness: an active license expiring on day 0 has been checked at
\* 23:59:59 of day 0 and found valid.
C9_Witness ==
    /\ Evaluated
    /\ evalOut.lic # NoLic
    /\ evalOut.lic.status = "active"
    /\ evalOut.lic.expiry = ExpiryDay0
    /\ evalOut.at = DayMs - 1000
    /\ evalOut.validate.status = "valid"
    /\ evalOut.cjs.status = "valid"

\* C10: for a license row with status inactive, no evaluator (validate of
\* part_001, checkLicense of index.js) answers valid, whatever the expiry
\* and the instant.
C10_InactiveNeverValid ==
    (Evaluated /\ evalOut.lic # NoLic /\ evalOut.lic.status = "inactive") =>
        /\ evalOut.validate.status # "valid"
        /\ evalOut.file.status # "valid"

----------------------------------------------------------------------------
(* Properties of checks, events and admin routes *)

\* The status of a license row at instant t: a missing row is unauthorised,
\* a row whose status is not active is inactive, an active row is expired
\* once the day of its expiry date is over, and valid until then.
StatusOf(lic, t) ==
    IF lic = NoLic THEN "unauthorised"
    ELSE IF lic.status # "active" THEN "inactive"
    ELSE IF t >= (DayOf(lic.expiry) + 1) * DayMs THEN "expired"
    ELSE "valid"

\* Handler r takes a step that is not the 500 answer of a store fault.
StepsWithoutFault(r) == reqs'[r] # reqs[r] /\ lastResp'.code # 500

\* C11: a start event of a device whose license is unauthorised, inactive or
\* expired changes no session row (none is created, none is aborted) and is
\* answered {status: ok, session: not_started, reason: <that status>}.
C11_StartOfInvalidDevice ==
    [][\A r \in Slots :
          LET q == reqs[r]
              st == StatusOf(licenses[q.device_id], now)
          IN /\ (q.pc = "idle" /\ reqs'[r].pc = "validate") => sessions' = sessions
             /\ (/\ q.pc = "validate"
                 /\ q.event = "start"
                 /\ st # "valid"
                 /\ StepsWithoutFault(r))
                => /\ sessions' = sessions
                   /\ reqs'[r].pc = "idle"
                   /\ lastResp' = Response(q, 200, "not_started", "", st)
                   /\ lastResp'.status = "ok"]_vars

\* C11 witness: a start of a device whose license has expired was answered
\* not_started, and the session the device started before is still running.
C11_Witness ==
    /\ lastResp.route = "GET /event"
    /\ lastResp.event = "start"
    /\ lastResp.session = "not_started"
    /\ lastResp.reason = "expired"
    /\ RunningRows(sessions, lastResp.device_id) # {}

\* C12: an end event of a device whose license is unauthorised, inactive or
\* expired leaves every session row as it is (a running session of the
\* device stays running) and is answered
\* {status: ok, session: not_ended, reason: <that status>}.
C12_EndOfInvalidDevice ==
    [][\A r \in Slots :
          LET q == reqs[r]
              st == StatusOf(licenses[q.device_id], now)
          IN (/\ q.pc = "validate"
              /\ q.event = "end"
              /\ st # "valid"
              /\ StepsWithoutFault(r))
             => /\ sessions' = sessions
                /\ reqs'[r].pc = "idle"
                /\ lastResp' = Response(q, 200, "not_ended", "", st)
                /\ lastResp'.status = "ok"]_vars

\* C12 witness: an end of a device whose license has expired was answered
\* not_ended, and the running session of the device is still running.
C12_Witness ==
    /\ lastResp.route = "GET /event"
    /\ lastResp.event = "end"
    /\ lastResp.session = "not_ended"
    /\ lastResp.reason = "expired"
    /\ RunningRows(sessions, lastResp.device_id) # {}

\* C13: when the license lookup fails with a store fault, a check (GET
\* /check of part_001 and of index.cjs) is answered with a server error and
\* with no license status, and an event request changes no session row.
C13_LookupFaultIsServerError ==
    [][/\ \A d \in OpsDevices :
             (Check(d, "lookup") \/ CheckCjs(d, "lookup"))
                => /\ lastResp'.code = 500
                   /\ lastResp'.error = "server_error"
                   /\ lastResp'.status \notin FourStatuses
       /\ \A r \in Slots :
             (reqs[r].pc = "validate" /\ StoreFault(r))
                => /\ sessions' = sessions
                   /\ lastResp'.code = 500
                   /\ lastResp'.session = ""]_vars

\* C14: a failure of the audit-log write is not visible to the caller: a
\* check is answered as when the write succeeds (GET /check of part_001 and
\* of index.cjs), and an event request goes on to its license lookup and
\* session step instead of being answered with an error.
C14_LogFaultIsInvisible ==
    [][/\ \A d \in OpsDevices :
             /\ Check(d, "log")
                   => lastResp' = Answer("GET /check", d, 200,
                                         validate(licenses, d, now).status, "", {})
             /\ CheckCjs(d, "log")
                   => lastResp' = Answer("index.cjs GET /check", d, 200,
                                         checkLicenseByDeviceId(licenses, d, now).status,
                                         "", {})
       /\ \A r \in Slots :
             BeginLogFault(r) => (lastResp'.code # 500 /\ reqs'[r].pc = "validate")]_vars

\* C15: every GET /check and every GET /event of part_001 that carries a
\* device_id appends exactly one audit row, of that device: a check appends
\* it also when the license lookup fails, an event request appends it when
\* it arrives and appends nothing in its later steps, whatever the license
\* status and the outcome of the session step (a store fault included).
C15_ExactlyOneAuditRecord ==
    [][/\ \A d \in OpsDevices, f \in {"none", "lookup"} :
             Check(d, f) => /\ Len(events') = Len(events) + 1
                            /\ events'[Len(events')].device_id = d
                            /\ events'[Len(events')].event = "check"
       /\ \A r \in Slots :
             /\ (reqs[r].pc = "idle" /\ reqs'[r].pc = "validate")
                   => /\ Len(events') = Len(events) + 1
                      /\ events'[Len(events')].device_id = reqs'[r].device_id
                      /\ events'[Len(events')].event = reqs'[r].event
             /\ (reqs[r].pc # "idle" /\ reqs'[r] # reqs[r]) => events' = events]_vars

LicenseWrites == {"POST /admin/license", "DELETE /admin/license"}

\* C16: no step of a check or of a start, end or other event request changes
\* a license row; a step that changes the license table is an admin upsert
\* or delete answered ok, and it changes the row of its device_id only.
C16_LicensesChangedByAdminOnly ==
    [][/\ (reqs' # reqs \/ events' # events) => licenses' = licenses
       /\ licenses' # licenses
             => /\ lastResp'.route \in LicenseWrites
                /\ lastResp'.code = 200
                /\ \A d \in Devices :
                      d # lastResp'.device_id => licenses'[d] = licenses[d]]_vars

\* C16 witness: a check, a start and an end of a device have been handled
\* and its license row is the one the server started with.
C16_Witness ==
    \E d \in OpsDevices :
        /\ \A e \in {"check", "start", "end"} :
              \E i \in 1 .. Len(events) : events[i].device_id = d /\ events[i].event = e
        /\ \E i \in Rows(sessions) : sessions[i].device_id = d /\ sessions[i].status = "ended"
        /\ licenses[d] = LicRow(d, "lite", ExpiryDay0, "active")

\* The admin request of this step is answered 401, returns no rows and
\* leaves the license table as it is.
Rejected ==
    /\ lastResp'.code = 401
    /\ lastResp'.error = "unauthorised"
    /\ lastResp'.rows = {}
    /\ licenses' = licenses

\* C17: every admin request (upsert and delete of a license, list of
\* licenses, audit rows and session rows) whose token differs from the
\* server's ADMIN_TOKEN, or that is made while ADMIN_TOKEN is not configured
\* (the empty token included), is answered with the unauthorised error,
\* returns no rows and leaves the license table unchanged.
C17_AdminNeedsToken ==
    [][\A token \in Tokens :
          (token # ADMIN_TOKEN \/ ADMIN_TOKEN = "")
             => /\ \A body \in UpsertBodies : AdminUpsert(token, body) => Rejected
                /\ \A device_id \in OpsDevices \cup {""} :
                      /\ AdminDelete(token, device_id) => Rejected
                      /\ \A route \in ListRoutes :
                            AdminList(route, token, device_id) => Rejected]_vars

\* C18: when a start of a valid device is answered started with session_id
\* S, a session row with session_id S, the device_id of the request and
\* status running exists; S is the session_id of the request when it has one
\* (also when a row with that session_id exists already), and otherwise an
\* id no row had before.
C18_StartedSessionExists ==
    [][\A r \in Slots :
          (reqs[r].pc = "insert" /\ reqs'[r].pc = "idle" /\ lastResp'.code = 200)
          => LET q == reqs[r]
                 S == lastResp'.session_id
             IN /\ lastResp'.session = "started"
                /\ q.session_id # "" => S = q.session_id
                /\ q.session_id = "" => S \notin KnownSids
                /\ \E i \in Rows(sessions') :
                      /\ sessions'[i].session_id = S
                      /\ sessions'[i].device_id = q.device_id
                      /\ sessions'[i].status = "running"]_vars

\* C19: a check, and an admin upsert or delete that changes a license row
\* (also into an expired, inactive or absent license), changes no session
\* row: a running session stays running with its start_time.
C19_NoForcedEnd ==
    [][(\/ licenses' # licenses
        \/ lastResp'.route \in LicenseWrites /\ lastResp' # lastResp
        \/ /\ Len(events') = Len(events) + 1
           /\ events'[Len(events')].event = "check")
       => sessions' = sessions]_vars

\* C19 witness: the license of a device has been deleted while the device
\* has a running session, after a check of the device, and the session is
\* still running.
C19_Witness ==
    \E d \in OpsDevices :
        /\ lastResp.route = "DELETE /admin/license"
        /\ lastResp.code = 200
        /\ lastResp.device_id = d
        /\ licenses[d] = NoLic
        /\ \E i \in 1 .. Len(events) : events[i].device_id = d /\ events[i].event = "check"
        /\ RunningRows(sessions, d) # {}

\* The running rows of device d with the latest start_time.
LatestOf(S, d) ==
    {i \in RunningRows(S, d) :
        \A j \in RunningRows(S, d) : S[j].start_time <= S[i].start_time}

\* Table S2 is table S with row i ended at instant t and no other change
\* (of row i, the status, end_time and duration_sec change).
EndedOnly(S, S2, i, t) ==
    /\ Len(S2) = Len(S)
    /\ \A j \in Rows(S) : j # i => S2[j] = S[j]
    /\ S2[i] = [S[i] EXCEPT !.status = "ended", !.end_time = t,
                            !.duration_sec = S2[i].duration_sec]

\* C20: an end without session_id of a valid device closes the running
\* session row of the device with the latest start_time and changes no
\* other session row.  For endSession of part_001: its SELECT picks a latest
\* running row, and its UPDATE, when that row is still a latest running one,
\* ends that row and no other.  For endSessionFromEvent of part_002: the
\* request ends one latest running row and no other.
C20_EndClosesLatestRunning ==
    [][/\ \A r \in Slots :
             LET q == reqs[r] IN
             /\ (q.pc = "endSelect" /\ reqs'[r].pc = "endUpdate")
                   => /\ sessions' = sessions
                      /\ \E i \in LatestOf(sessions, q.device_id) :
                            sessions[i].session_id = reqs'[r].sid
             /\ (/\ q.pc = "endUpdate"
                 /\ reqs'[r].pc = "idle"
                 /\ \E i \in LatestOf(sessions, q.device_id) :
                       sessions[i].session_id = q.sid)
                   => /\ lastResp'.session = "ended"
                      /\ \E i \in LatestOf(sessions, q.device_id) :
                            /\ sessions[i].session_id = q.sid
                            /\ EndedOnly(sessions, sessions', i, now)
       /\ (/\ lastResp'.route = "part_002 GET /event"
           /\ lastResp'.event = "end"
           /\ Len(events') = Len(events) + 1
           /\ reqs' = reqs
           /\ RunningRows(sessions, lastResp'.device_id) # {})
             => \E i \in LatestOf(sessions, lastResp'.device_id) :
                   EndedOnly(sessions, sessions', i, now)]_vars

\* C20 witness: a device had two running sessions with different
\* start_times; an end without session_id has ended the later one and the
\* earlier one is still running.
C20_Witness ==
    /\ lastResp.event = "end"
    /\ lastResp.given = ""
    /\ lastResp.session \in {"ended", "closed"}
    /\ \E i, j \in Rows(sessions) :
          /\ sessions[i].device_id = lastResp.device_id
          /\ sessions[j].device_id = lastResp.device_id
          /\ sessions[i].status = "ended"
          /\ sessions[j].status = "running"
          /\ sessions[j].start_time < sessions[i].start_time

----------------------------------------------------------------------------
(* Properties of concurrent requests, validation and the stores *)

\* C21: under every interleaving of overlapping start and end requests of
\* one device, the UPDATE of an end request writes only to a row that is
\* running at the moment of the write: no row is closed twice, and a row a
\* start has aborted in between is not turned into ended.
C21_EndWritesRunningRowOnly ==
    [][\A r \in Slots :
          (reqs[r].pc \in {"endById", "endUpdate"} /\ reqs'[r].pc = "idle")
          => \A i \in Rows(sessions) :
                sessions'[i] # sessions[i]
                   => /\ sessions[i].status = "running"
                      /\ sessions[i].end_time = NULL]_vars

\* The request of this step is refused with a client error: a 4xx code, an
\* error text, no license status and no acknowledgement, and no session row
\* is changed.
ClientError ==
    /\ lastResp'.code \in 400 .. 499
    /\ lastResp'.error # ""
    /\ lastResp'.status = ""
    /\ lastResp'.ok = ""
    /\ sessions' = sessions

\* C22: a check or event request without device_id (GET /check and GET
\* /event of part_001 and of index.cjs) is refused with a client error
\* before any license lookup or session operation, changes no session row,
\* and is answered neither with a license status nor with an acknowledgement.
C22_MissingDeviceIdIsClientError ==
    [][/\ \A f \in Faults : (Check("", f) \/ CheckCjs("", f)) => ClientError
       /\ EventNoDevice => ClientError
       /\ \A event \in {"start", "end"}, f \in {"none", "log"} :
             EventCjs("", event, f) => ClientError]_vars

\* A license write whose level, status or expiry is not sent or is outside
\* its domain (letter case aside).
InvalidWrite(body) ==
    \/ ToLowerCase(bodyText(body.level)) \notin {"lite", "premium"}
    \/ ToLowerCase(bodyText(body.status)) \notin {"active", "inactive"}
    \/ ~validDate(bodyText(body.expiry))

\* C23: an authorised license write (POST /admin/license, POST
\* /admin/licenses) whose level, status or expiry is missing or invalid is
\* answered with a 4xx and leaves the license table as it was.
C23_InvalidLicenseWriteRejected ==
    [][\A body \in WriteBodies :
          (InvalidWrite(body) /\ (AdminUpsert("secret", body) \/ AdminInsert("secret", body)))
          => /\ lastResp'.code \in 400 .. 499
             /\ licenses' = licenses]_vars

\* The fields POST /admin/license carries to the store for a body.
FieldsOf(body) ==
    [device_id |-> body.device_id, username |-> body.username, level |-> body.level,
     expiry |-> body.expiry,
     status |-> IF body.status = NoStatus THEN "active" ELSE body.status]

DuplicateInsert(body) ==
    /\ ~InvalidWrite(body)
    /\ body.device_id # ""
    /\ body.username # ""
    /\ licenses[body.device_id] # NoLic
    /\ AdminInsert("secret", body)

\* C25: an insert of a license whose device_id exists is answered with a
\* server error (5xx) and leaves the license table as it was.
C25_DuplicateInsertIsServerError ==
    [][\A body \in WriteBodies :
          DuplicateInsert(body) => /\ lastResp'.code \in 500 .. 599
                                   /\ licenses' = licenses]_vars

\* C25, amended: an insert of a license whose device_id exists is answered
\* 400 "device_id exists" and leaves the license table as it was.
C25_DuplicateInsertIsClientError ==
    [][\A body \in WriteBodies :
          DuplicateInsert(body) => /\ lastResp'.code = 400
                                   /\ lastResp'.error = "device_id exists"
                                   /\ licenses' = licenses]_vars

\* An insert met the record the server started with.
C25_Witness ==
    /\ lastResp.route = "POST /admin/licenses"
    /\ lastResp.error = "device_id exists"
    /\ licenses["D2"] = LicRow("D2", "lite", ExpiryDay0, "active")

\* C26: every step of the checks, starts, ends, other events and admin
\* requests leaves each audit row where it was and as it was; rows are only
\* added at the end.
C26_AuditLogAppendOnly ==
    [][/\ Len(events') >= Len(events)
       /\ \A i \in 1 .. Len(events) : events'[i] = events[i]]_vars

\* A check, a start and an end are in the log, and an admin delete was
\* answered after them.
C26_Witness ==
    /\ Len(events) = 3
    /\ {events[i].event : i \in 1 .. 3} = {"check", "start", "end"}
    /\ lastResp.route = "DELETE /admin/license"
    /\ lastResp.code = 200

\* The session rows of one device, in insertion order.
RowsOfDevice(S, device_id) ==
    LET IsOf(row) == row.device_id = device_id IN SelectSeq(S, IsOf)

\* The session statement request r runs in this step.
SessionStep(r) == Abort(r) \/ Insert(r) \/ EndById(r) \/ EndUpdate(r)

\* The step of r leaves the rows of every other device as they were.
OtherDevicesUntouched(r) ==
    \A d \in Devices \ {reqs[r].device_id} :
        RowsOfDevice(sessions', d) = RowsOfDevice(sessions, d)

\* The step of r does to the rows of its device what the same statement
\* does to a table that holds the rows of that device only.
SameAsAlone(r) ==
    LET q == reqs[r]
        mine == RowsOfDevice(sessions, q.device_id)
        mine2 == RowsOfDevice(sessions', q.device_id)
    IN  /\ Abort(r) => mine2 \in abortRunningSession(mine, q.device_id, now)
        /\ Insert(r) => mine2 = insertSession(mine, q.sid, q.device_id, q.level, now)
        /\ EndById(r) => mine2 = updateEnded(mine, q.device_id, q.session_id,
                                             endDur(q.duration), now)
        /\ EndUpdate(r) => mine2 = updateEnded(mine, q.device_id, q.sid,
                                               endDur(q.duration), now)

\* C27: a session statement of a start or end for one device leaves the
\* sessions of every other device as they were, and changes the sessions of
\* its own device as it would with no other device in the table.
C27_DevicesAreIndependent ==
    [][\A r \in Slots : SessionStep(r) => OtherDevicesUntouched(r) /\ SameAsAlone(r)]_vars

\* C28: in every reachable state each session row is running exactly when
\* its end_time is null, an ended or aborted row has end_time >= start_time
\* and a duration_sec that is an integer >= 0, and no two rows share a
\* session_id.
C28_SessionRowsWellFormed ==
    /\ \A i \in Rows(sessions) :
          LET row == sessions[i] IN
          /\ row.status \in {"running"} \cup Terminal
          /\ row.status = "running" <=> row.end_time = NULL
          /\ row.status \in Terminal
                => /\ row.end_time >= row.start_time
                   /\ row.duration_sec \in Nat
    /\ \A i, j \in Rows(sessions) :
          sessions[i].session_id = sessions[j].session_id => i = j

\* A row ended with the duration the client sent, and a row started after
\* it by part_002 is running.
C28_Witness ==
    /\ \E i, j \in Rows(sessions) :
          /\ sessions[i].status = "ended"
          /\ sessions[i].duration_sec = 7
          /\ sessions[j].status = "running"
    /\ lastResp.route = "part_002 GET /event"
    /\ lastResp.event = "start"

\* C29: a session row becomes aborted only in the abort statement of a
\* start for the device of the row, and the row was running then; no step
\* of a check, an end, another event or an admin request makes a row
\* aborted.
C29_AbortedOnlyByStart ==
    [][\A i \in Rows(sessions) :
          (sessions'[i].status = "aborted" /\ sessions[i].status # "aborted")
          => /\ sessions[i].status = "running"
             /\ \E r \in Slots :
                   /\ reqs[r].pc = "abort"
                   /\ reqs'[r].pc = "insert"
                   /\ reqs[r].event = "start"
                   /\ reqs[r].device_id = sessions[i].device_id]_vars

\* A start has aborted the running session of its device and was answered
\* started.
C29_Witness ==
    /\ lastResp.session = "started"
    /\ \E i, j \in Rows(sessions) :
          /\ sessions[i].status = "aborted"
          /\ sessions[i].device_id = lastResp.device_id
          /\ sessions[j].status = "running"
          /\ sessions[j].session_id = lastResp.session_id

\* The kind of the request made for device d before the one whose audit
\* row is the last ("" if there was none).
PreviousEventOf(d) ==
    LET before == {j \in 1 .. (Len(events) - 1) : events[j].device_id = d}
    IN  IF before = {} THEN ""
        ELSE events[CHOOSE j \in before : \A k \in before : k <= j].event

\* C30: when requests do not overlap, an end without session_id of a valid
\* device whose previous request was a start (of the then valid device)
\* that met no running session of the device (no row of the device is
\* aborted) is answered ended with the session_id of a row of the device
\* that was running and is now ended, no other row changes, and the device
\* has no running row afterwards.
C30_StartThenEndClosesIt ==
    [][\A r \in Slots :
          LET q == reqs[r] IN
          (/\ q.event = "end"
           /\ q.session_id = ""
           /\ q.pc \in {"endSelect", "endUpdate"}
           /\ reqs'[r].pc = "idle"
           /\ PreviousEventOf(q.device_id) = "start"
           /\ \A i \in Rows(sessions) :
                 sessions[i].device_id = q.device_id => sessions[i].status # "aborted")
          => /\ lastResp'.session = "ended"
             /\ \E i \in Rows(sessions) :
                   /\ sessions[i].device_id = q.device_id
                   /\ sessions[i].status = "running"
                   /\ sessions[i].session_id = lastResp'.session_id
                   /\ EndedOnly(sessions, sessions', i, now)
             /\ RunningRows(sessions', q.device_id) = {}]_vars

----------------------------------------------------------------------------
(* Properties of the other servers and of the limiter *)

\* C31: a start of a valid device that runs its statements while no other
\* request is in flight aborts every running session of the device (its
\* abort statement leaves no running row of the device, however many there
\* were), and its insert statement, finding none, leaves at most one.
C31_StartHealsDevice ==
    [][\A r \in Slots :
          LET q == reqs[r] IN
          /\ (q.pc = "abort" /\ reqs'[r].pc = "insert" /\ InFlight = {r})
                => RunningRows(sessions', q.device_id) = {}
          /\ (/\ q.pc = "insert"
              /\ reqs'[r].pc = "idle"
              /\ InFlight = {r}
              /\ RunningRows(sessions, q.device_id) = {})
                => Cardinality(RunningRows(sessions', q.device_id)) <= 1]_vars

\* C32: an active license whose expiry is missing or is no calendar date is
\* evaluated expired by validate of part_001 and by checkLicense of index.js,
\* at every instant.
C32_UnreadableExpiryIsExpired ==
    (/\ Evaluated
     /\ evalOut.lic # NoLic
     /\ evalOut.lic.status = "active"
     /\ evalOut.lic.expiry \notin ExpiryDates)
    => /\ evalOut.validate.status = "expired"
       /\ evalOut.file.status = "expired"

\* The step writes the session table through POST /start or POST /end of
\* index.cjs or through GET /event of part_002.
GatedRouteWrites ==
    /\ sessions' # sessions
    /\ lastResp'.route \in {"POST /start", "POST /end", "part_002 GET /event"}

\* C33: POST /start and POST /end of index.cjs and GET /event of part_002
\* create or close a session row only for a device whose license is valid
\* at that instant.
C33_NoSessionWithoutValidLicense ==
    [][GatedRouteWrites
          => StatusOf(licenses[lastResp'.device_id], now) = "valid"]_vars

\* C34: POST /start of index.cjs (with no session_id of its own) and the
\* start branch of POST /event of index.js, for a device that has a running
\* session, answer 200 and leave exactly one running session of the device.
C34_SecondStartAbortsStale ==
    [][\A device_id \in OpsDevices :
          (/\ RunningRows(sessions, device_id) # {}
           /\ (StartCjs(device_id, "", "lite") \/ EventJs(device_id, "start", "")))
          => /\ lastResp'.code = 200
             /\ Cardinality(RunningRows(sessions', device_id)) = 1]_vars

\* Whole seconds from instant st to instant t, not below 0.
WholeSeconds(st, t) == Max((t - st) \div 1000, 0)

\* C35: an end sent to the file-backed POST /event with no usable duration
\* (none, negative or not a number), for a device with a recorded start, is
\* logged with the whole seconds elapsed since that start, not below 0.
C35_FileEndRecordsElapsedSeconds ==
    [][\A device_id \in Devices, rawDuration \in {NoDuration, "-5", "abc"} :
          (lastStart[device_id] # NULL /\ FileEvent(device_id, "end", rawDuration))
          => events'[Len(events')].duration =
                [client |-> "", n |-> WholeSeconds(lastStart[device_id], now)]]_vars

\* C36: a start or end sent to the file-backed POST /event by a device
\* whose license status is not valid leaves lastStart as it was and adds
\* one record to the log.
C36_FileInvalidLeavesLastStart ==
    [][\A device_id \in Devices, event \in {"start", "end"}, rawDuration \in Durations :
          (/\ checkLicense(licenses, device_id, now).status # "valid"
           /\ FileEvent(device_id, event, rawDuration))
          => /\ lastStart' = lastStart
             /\ Len(events') = Len(events) + 1]_vars

\* C37: GET /check of part_002 and POST /check of index.js answer valid for
\* an active license at every instant of the UTC day of its expiry date up
\* to 23:59:59, and expired from 00:00:01 of the next day.
C37_ValidOnExpiryDay ==
    (/\ Evaluated
     /\ evalOut.lic # NoLic
     /\ evalOut.lic.status = "active"
     /\ evalOut.lic.expiry \in ExpiryDates)
    => /\ (/\ evalOut.at >= DayOf(evalOut.lic.expiry) * DayMs
           /\ evalOut.at <= LastValidInstant(evalOut.lic.expiry))
            => /\ evalOut.part002 = "valid"
               /\ evalOut.post = "valid"
       /\ evalOut.at >= FirstExpiredInstant(evalOut.lic.expiry)
            => /\ evalOut.part002 = "expired"
               /\ evalOut.post = "expired"

C39_LimiterFixedWindow ==
    [][\A ip \in Addresses, q \in RateRequests :
          Limited(ip, q[1], q[2]) =>
             LET e == rateMap[ip]
                 e2 == rateMap'[ip]
                 inWindow == e # NoEntry /\ now - e.t <= RL_WINDOW_MS
             IN
             /\ inWindow => (e2.t = e.t /\ e2.n = e.n + 1)
             /\ ~inWindow => e2 = [n |-> 1, t |-> now]
             /\ (lastResp'.code # 429) <=> (e2.n <= RL_MAX_REQ)
             /\ lastResp'.code = 429 =>
                   /\ lastResp'.error = "rate_limited"
                   /\ events' = events
                   /\ sessions' = sessions
             /\ \A other \in Addresses \ {ip} : rateMap'[other] = rateMap[other]]_vars

\* A request answered 429 at the last instant of a window in which an
\* earlier check was logged.
C39_Witness ==
    /\ lastResp.code = 429
    /\ rateMap["10.0.0.1"].n = RL_MAX_REQ + 1
    /\ now - rateMap["10.0.0.1"].t = RL_WINDOW_MS
    /\ Len(events) > 0

====
